---- MODULE Spec2Model ----
(***************************************************************************)
(* The iteration controller and tool dispatcher of main.py                 *)
(* (run_main_loop, task_completed, log_to_file, home), as a state machine. *)
(*                                                                         *)
(* One Run is modelled: the POST to "/" that starts the worker thread, the *)
(* capability precheck, and then the loop, one action per step between two *)
(* calls to the outside (gateway, tool function, history file).            *)
(*                                                                         *)
(* Strings the program builds by concatenation (output) are sequences of   *)
(* tokens, one token per concatenated piece.                               *)
(***************************************************************************)
EXTENDS Integers, Sequences, FiniteSets, TLC

(* ---- bounds of the model ---- *)

\* largest value of progress["max_iterations"] that is explored
MaxIterations == 2
\* largest number of ToolCalls in one round-1 response
MaxBatch == 2
\* largest number of characters in a stored content
MaxCode == 2
\* largest number of store_code calls that is explored
MaxStores == 3

(* ---- the registry and the tool calls the gateway may issue ---- *)

\* keys of available_functions
available_functions ==
    {"create_directory", "create_file", "update_file", "fetch_code",
     "task_completed", "store_code", "retrieve_code", "list_all_functions"}

\* names the gateway is made to put in a ToolCall: a registered tool, the
\* completion signal, and a name that is not in the registry
CallNames == {"create_directory", "task_completed", "deploy_app"}

\* texts the gateway is made to put in tool_call.function.arguments
ArgTexts == {"{\"path\": \"d\"}", "{}", "{oops"}

\* the <<name, arguments>> pairs of the ToolCalls that are explored; the
\* arguments of a name that is not registered are never read (line 460), so
\* that name comes with one text only
CallShapes ==
    {<<nm, a>> : nm \in CallNames \cap available_functions, a \in ArgTexts}
      \cup {<<nm, "{}">> : nm \in CallNames \ available_functions}

\* json.loads(text): the set of keys of the decoded object, or a parse error
json_loads(text) ==
    CASE text = "{\"path\": \"d\"}" -> [ok |-> TRUE, keys |-> {"path"}]
      [] text = "{}" -> [ok |-> TRUE, keys |-> {}]
      [] OTHER -> [ok |-> FALSE, keys |-> {}]

\* the parameters of the registered functions (none has a default)
Params(name) ==
    CASE name = "create_directory" -> {"path"}
      [] name = "create_file" -> {"path", "content"}
      [] name = "update_file" -> {"path", "content"}
      [] name = "fetch_code" -> {"file_path"}
      [] name = "task_completed" -> {}
      [] name = "store_code" -> {"code_content"}
      [] name = "retrieve_code" -> {"code_id"}
      [] OTHER -> {}

\* what the body of a registered function can do once it has been entered:
\* task_completed only assigns to progress; the others touch the file system
\* or the database and may raise
BodyOutcomes(name) ==
    IF name = "task_completed" THEN {"returned"} ELSE {"returned", "raised"}

\* outcomes of the write in log_to_file
WriteOutcomes == {"written", "open_failed", "dump_failed"}

UserInputs == {"build a blog"}

\* the two POSTs to "/" whose threads run side by side
Runs == {"first", "second"}

VARIABLES
    progress,        \* the module-level progress dict
    model_supports,  \* supports_function_calling(MODEL_NAME), fixed per process
    log_file,        \* contents of LOG_FILE
    pc,              \* position of the worker thread
    user_input,      \* argument of run_main_loop
    history_dict,    \* history_dict['iterations']
    max_iterations,  \* locals of run_main_loop
    iteration,
    messages,
    output,
    response,        \* what the last completion() did
    tool_calls,      \* the batch being dispatched
    idx,             \* position of the for loop in tool_calls
    call_outcome,    \* "returned"/"raised" once tool_calls[idx] has been tried
    result,          \* value returned by run_main_loop
    slept,           \* argument of the last sleep()
    gateway_calls,   \* history variable: <<pass, round>> of every completion()
    invoked,         \* history variable: id and name of the ToolCalls whose function ran
    log_calls,       \* history variable: pass number at every log_to_file()
    passes_ended,    \* history variable: passes the control has left
    workers,         \* two Runs on the one progress dict: the locals of each thread
    codes,           \* the codes table of codes.db: code_id -> code_content
    returned,        \* value returned by the last store_code / retrieve_code
    stores           \* history variable: every store_code call made so far

vars == <<progress, model_supports, log_file, pc, user_input, history_dict, max_iterations,
          iteration, messages, output, response, tool_calls, idx, call_outcome,
          result, slept, gateway_calls, invoked, log_calls, passes_ended,
          workers, codes, returned, stores>>

locals == <<user_input, history_dict, max_iterations, iteration, messages, output,
            response, tool_calls, idx, call_outcome, result>>

ghosts == <<gateway_calls, invoked, log_calls, passes_ended>>

\* the single Run: everything of it but the shared progress dict
run_vars == <<model_supports, log_file, pc, locals, slept, ghosts>>

\* the code store
store_vars == <<codes, returned, stores>>

\* sleep(5) after an empty round-1 response, sleep(2) after every other pass
AnomalyBackoff == 5
Pacing == 2

(* ---- data ---- *)

\* one piece of the output text: its wording, the pass it belongs to, the tool
Tok(kind, pass, name) == <<kind, pass, name>>

NoId == <<>>

Message(role, content, ids, reply_to) ==
    [role |-> role, content |-> content, tool_calls |-> ids, tool_call_id |-> reply_to]

ToolCall(pass, k, name, arguments) ==
    [id |-> <<pass, k>>, name |-> name, arguments |-> arguments]

\* lines 419-425 numbering the entries from 0
IterationRecord_zero_based(n) ==
    [iteration |-> n - 1, actions |-> <<>>, llm_responses |-> <<>>,
     tool_results |-> <<>>, errors |-> <<>>]

\* the entry appended to history_dict['iterations'] at the top of a pass
IterationRecord(n) ==
    [iteration |-> n, actions |-> <<>>, llm_responses |-> <<>>,
     tool_results |-> <<>>, errors |-> <<>>]

\* current_iteration is an alias of the last entry of the history
current_iteration == history_dict[Len(history_dict)]

AppendTo(field, entry) ==
    [history_dict EXCEPT ![Len(history_dict)][field] = Append(@, entry)]

\* log_to_file: json.dump of the history into LOG_FILE, any exception swallowed
log_to_file(file, hist, w) ==
    CASE w = "written" -> [state |-> "written", iterations |-> hist]
      [] w = "dump_failed" -> [state |-> "partial", iterations |-> <<>>]
      [] OTHER -> file

Ids(calls) == [k \in 1..Len(calls) |-> calls[k].id]

\* the batches of at most MaxBatch ToolCalls the gateway may return in pass n
RECURSIVE BatchesOfLen(_, _)
BatchesOfLen(n, len) ==
    IF len = 0 THEN {<<>>}
    ELSE {Append(b, ToolCall(n, len, c[1], c[2])) :
            b \in BatchesOfLen(n, len - 1), c \in CallShapes}

Batches(n) == UNION {BatchesOfLen(n, len) : len \in 0..MaxBatch}

(* ---- Init ---- *)

Init ==
    /\ progress \in {[status |-> "idle", iteration |-> 0, max_iterations |-> m,
                      output |-> <<>>, completed |-> FALSE] : m \in 0..MaxIterations}
    /\ model_supports \in BOOLEAN
    /\ log_file = [state |-> "absent", iterations |-> <<>>]
    /\ pc = "idle"
    /\ user_input = ""
    /\ history_dict = <<>>
    /\ max_iterations = 0
    /\ iteration = 0
    /\ messages = <<>>
    /\ output = <<>>
    /\ response = [kind |-> "none", tool_calls |-> <<>>]
    /\ tool_calls = <<>>
    /\ idx = 0
    /\ call_outcome = "none"
    /\ result = <<>>
    /\ slept = 0
    /\ gateway_calls = <<>>
    /\ invoked = <<>>
    /\ log_calls = <<>>
    /\ passes_ended = 0
    /\ workers = [r \in Runs |->
                     [pc |-> "idle", max_iterations |-> 0, iteration |-> 0, output |-> <<>>]]
    /\ codes = {}
    /\ returned = [kind |-> "none", value |-> <<>>]
    /\ stores = <<>>

(* ---- home (POST "/"): lines 141-148 ---- *)

HomePost ==
    /\ pc = "idle"
    /\ \E text \in UserInputs : user_input' = text
    /\ progress' = [progress EXCEPT !.status = "running", !.iteration = 0,
                                    !.output = <<>>, !.completed = FALSE]
    /\ pc' = "start"
    /\ UNCHANGED <<model_supports, workers, store_vars, log_file, history_dict, max_iterations, iteration,
                   messages, output, response, tool_calls, idx, call_outcome, result, slept>>
    /\ UNCHANGED ghosts

(* ---- run_main_loop up to the loop: lines 393-415 ---- *)

NoToolSupport == <<Tok("Model does not support function calling.", 0, "")>>

\* lines 395-399 without the return: the worker goes on into the loop
PrecheckFails_no_return ==
    /\ pc = "start"
    /\ ~model_supports
    /\ history_dict' = <<>>
    /\ progress' = [progress EXCEPT !.status = "error", !.output = NoToolSupport,
                                    !.completed = TRUE]
    /\ max_iterations' = progress.max_iterations
    /\ iteration' = 0
    /\ messages' = <<>>
    /\ output' = <<>>
    /\ pc' = "loop"
    /\ UNCHANGED <<model_supports, workers, store_vars, log_file, user_input, response, tool_calls, idx,
                   call_outcome, result, slept>>
    /\ UNCHANGED ghosts

PrecheckFails ==
    /\ pc = "start"
    /\ ~model_supports
    /\ history_dict' = <<>>
    /\ progress' = [progress EXCEPT !.status = "error", !.output = NoToolSupport,
                                    !.completed = TRUE]
    /\ result' = NoToolSupport
    /\ pc' = "done"
    /\ UNCHANGED <<model_supports, workers, store_vars, log_file, user_input, max_iterations, iteration,
                   messages, output, response, tool_calls, idx, call_outcome, slept>>
    /\ UNCHANGED ghosts

\* read_instructions() opens instructions.md outside any try: when the file
\* cannot be read the exception leaves run_main_loop and the thread ends
ReadInstructionsFails ==
    /\ pc = "start"
    /\ model_supports
    /\ history_dict' = <<>>
    /\ max_iterations' = progress.max_iterations
    /\ iteration' = 0
    /\ pc' = "crashed"
    /\ UNCHANGED <<progress, model_supports, workers, store_vars, log_file, user_input, messages, output,
                   response, tool_calls, idx, call_outcome, result, slept>>
    /\ UNCHANGED ghosts

SeedMessages(text) ==
    << Message("system", "instructions", <<>>, NoId),
       Message("user", text, <<>>, NoId),
       Message("system", "History", <<>>, NoId) >>

EnterLoop ==
    /\ pc = "start"
    /\ model_supports
    /\ history_dict' = <<>>
    /\ max_iterations' = progress.max_iterations
    /\ iteration' = 0
    /\ messages' = SeedMessages(user_input)
    /\ output' = <<>>
    /\ pc' = "loop"
    /\ UNCHANGED <<progress, model_supports, workers, store_vars, log_file, user_input, response, tool_calls, idx,
                   call_outcome, result, slept>>
    /\ UNCHANGED ghosts

(* ---- the loop: lines 417-535 ---- *)

\* line 417 with <= for <
LoopCondition_inclusive(it, max) == it <= max

\* the while condition of line 417
LoopCondition(it, max) == it < max

BeginPass ==
    /\ pc = "loop"
    /\ LoopCondition(iteration, max_iterations)
    /\ progress' = [progress EXCEPT !.iteration = iteration + 1]
    /\ history_dict' = Append(history_dict, IterationRecord(iteration + 1))
    /\ pc' = "round1"
    /\ UNCHANGED <<model_supports, workers, store_vars, log_file, user_input, max_iterations, iteration,
                   messages, output, response, tool_calls, idx, call_outcome, result, slept>>
    /\ UNCHANGED ghosts

\* lines 529-533 without the assignments to progress["status"]
BudgetExhausted_no_status(p) == [p EXCEPT !.completed = TRUE]

\* lines 529-533: what the end of the loop writes to progress
BudgetExhausted(p) == [p EXCEPT !.status = "completed", !.completed = TRUE]

\* lines 529-535
FinishByBudget ==
    /\ pc = "loop"
    /\ ~LoopCondition(iteration, max_iterations)
    /\ progress' = BudgetExhausted(progress)
    /\ result' = output
    /\ pc' = "done"
    /\ UNCHANGED <<model_supports, workers, store_vars, log_file, user_input, history_dict, max_iterations,
                   iteration, messages, output, response, tool_calls, idx, call_outcome, slept>>
    /\ UNCHANGED ghosts

\* the except clause of lines 517-523
PassBoundaryHandler == AppendTo("errors", [action |-> "main_loop"])

\* what completion() can do: raise, return a response without a usable message,
\* or return a message, which in round 1 may carry ToolCalls.  A round-1
\* response whose choices list is empty makes line 436 raise IndexError: it is
\* one of the "raise" cases
Responses(batches) ==
    {[kind |-> "raise", tool_calls |-> <<>>], [kind |-> "empty", tool_calls |-> <<>>]}
      \cup {[kind |-> "message", tool_calls |-> b] : b \in batches}

\* lines 429-434: the round-1 call
CallGateway1 ==
    /\ pc = "round1"
    /\ response' \in Responses(Batches(iteration + 1))
    /\ gateway_calls' = Append(gateway_calls, <<iteration + 1, 1>>)
    /\ pc' = "got1"
    /\ UNCHANGED <<progress, model_supports, workers, store_vars, log_file, user_input, history_dict,
                   max_iterations, iteration, messages, output, tool_calls, idx,
                   call_outcome, result, slept, invoked, log_calls, passes_ended>>

\* the call raised: lines 517-523
Round1Raises ==
    /\ pc = "got1"
    /\ response.kind = "raise"
    /\ history_dict' = PassBoundaryHandler
    /\ pc' = "endpass"
    /\ UNCHANGED <<progress, model_supports, workers, store_vars, log_file, user_input, max_iterations,
                   iteration, messages, output, tool_calls, idx, call_outcome, result,
                   slept, response>>
    /\ UNCHANGED ghosts

\* lines 436-442 without the continue: line 444 onwards runs on the empty
\* message, line 445 raises and the pass boundary records a second error
Round1NoMessage_no_continue ==
    /\ pc = "got1"
    /\ response.kind = "empty"
    /\ history_dict' =
         [history_dict EXCEPT ![Len(history_dict)].errors =
              @ \o <<[action |-> "llm_completion"], [action |-> "main_loop"]>>]
    /\ \E w \in WriteOutcomes : log_file' = log_to_file(log_file, history_dict, w)
    /\ log_calls' = Append(log_calls, Len(history_dict))
    /\ slept' = AnomalyBackoff
    /\ iteration' = iteration + 1
    /\ pc' = "endpass"
    /\ UNCHANGED <<progress, model_supports, workers, store_vars, user_input, max_iterations, messages,
                   output, tool_calls, idx, call_outcome, result, response,
                   gateway_calls, invoked, passes_ended>>

\* lines 436-442 without line 441
Round1NoMessage_no_increment ==
    /\ pc = "got1"
    /\ response.kind = "empty"
    /\ history_dict' = AppendTo("errors", [action |-> "llm_completion"])
    /\ \E w \in WriteOutcomes : log_file' = log_to_file(log_file, history_dict', w)
    /\ log_calls' = Append(log_calls, Len(history_dict))
    /\ slept' = AnomalyBackoff
    /\ passes_ended' = passes_ended + 1
    /\ pc' = "loop"
    /\ UNCHANGED <<progress, model_supports, workers, store_vars, user_input, max_iterations, iteration,
                   messages, output, tool_calls, idx, call_outcome, result, response,
                   gateway_calls, invoked>>

\* lines 436-442: response.choices[0].message is empty
Round1NoMessage ==
    /\ pc = "got1"
    /\ response.kind = "empty"
    /\ history_dict' = AppendTo("errors", [action |-> "llm_completion"])
    /\ \E w \in WriteOutcomes : log_file' = log_to_file(log_file, history_dict', w)
    /\ log_calls' = Append(log_calls, Len(history_dict))
    /\ slept' = AnomalyBackoff
    /\ iteration' = iteration + 1
    /\ passes_ended' = passes_ended + 1
    /\ pc' = "loop"
    /\ UNCHANGED <<progress, model_supports, workers, store_vars, user_input, max_iterations, messages,
                   output, tool_calls, idx, call_outcome, result, response,
                   gateway_calls, invoked>>

\* lines 444-454 and 511-515: a message, with the batch of ToolCalls it carries
Round1Message ==
    /\ pc = "got1"
    /\ response.kind = "message"
    /\ history_dict' = AppendTo("llm_responses", "content")
    /\ tool_calls' = response.tool_calls
    /\ messages' = Append(messages,
                          Message("assistant", "content", Ids(response.tool_calls), NoId))
    /\ IF response.tool_calls # <<>>
       THEN /\ output' = output \o <<Tok("Iteration", iteration + 1, ""),
                                     Tok("Tool Call", iteration + 1, "")>>
            /\ idx' = 1
            /\ pc' = "dispatch"
            /\ UNCHANGED progress
       ELSE /\ output' = output \o <<Tok("Iteration", iteration + 1, ""),
                                     Tok("LLM Response", iteration + 1, "")>>
            /\ progress' = [progress EXCEPT !.output = output']
            /\ pc' = "endpass"
            /\ UNCHANGED idx
    /\ UNCHANGED <<model_supports, workers, store_vars, log_file, user_input, max_iterations, iteration,
                   call_outcome, result, slept, response>>
    /\ UNCHANGED ghosts

(* ---- dispatch of one ToolCall: lines 456-495 ---- *)

tool_call == tool_calls[idx]

\* the for loop moves to the next ToolCall, or falls through to line 497
NextCall ==
    /\ idx' = idx + 1
    /\ call_outcome' = "none"
    /\ pc' = IF idx + 1 > Len(tool_calls) THEN "round2" ELSE "dispatch"

\* lines 460-467 with break for continue
DispatchUnknownTool_break ==
    /\ pc = "dispatch"
    /\ tool_call.name \notin available_functions
    /\ history_dict' = AppendTo("errors", [action |-> "tool_call_" \o tool_call.name])
    /\ pc' = "round2"
    /\ UNCHANGED <<progress, model_supports, workers, store_vars, log_file, user_input, max_iterations,
                   iteration, messages, output, response, tool_calls, idx, call_outcome,
                   result, slept>>
    /\ UNCHANGED ghosts

\* lines 460-467
DispatchUnknownTool ==
    /\ pc = "dispatch"
    /\ tool_call.name \notin available_functions
    /\ history_dict' = AppendTo("errors", [action |-> "tool_call_" \o tool_call.name])
    /\ NextCall
    /\ UNCHANGED <<progress, model_supports, workers, store_vars, log_file, user_input, max_iterations,
                   iteration, messages, output, response, tool_calls, result, slept>>
    /\ UNCHANGED ghosts

\* the call made with the keys that are not parameters dropped
Binds_extra_keys_dropped(name, keys) == Params(name) \subseteq keys

\* function_to_call(**function_args) binds the decoded keys to the parameters
Binds(name, keys) == keys = Params(name)

\* task_completed(): lines 112-115
task_completed(p) == [p EXCEPT !.status = "completed", !.completed = TRUE]

\* lines 470-471: decode the arguments and call the function
CallTool ==
    /\ pc = "dispatch"
    /\ tool_call.name \in available_functions
    /\ LET parsed == json_loads(tool_call.arguments) IN
         IF parsed.ok /\ Binds(tool_call.name, parsed.keys)
         THEN /\ \E o \in BodyOutcomes(tool_call.name) : call_outcome' = o
              /\ invoked' = Append(invoked, [id |-> tool_call.id, name |-> tool_call.name])
              /\ progress' = IF tool_call.name = "task_completed"
                             THEN task_completed(progress) ELSE progress
         ELSE /\ call_outcome' = "raised"
              /\ UNCHANGED <<invoked, progress>>
    /\ pc' = "called"
    /\ UNCHANGED <<model_supports, workers, store_vars, log_file, user_input, history_dict, max_iterations,
                   iteration, messages, output, response, tool_calls, idx, result, slept,
                   gateway_calls, log_calls, passes_ended>>

\* line 481 with the name misspelt
IsCompletionSignal_misspelt(function_name) == function_name = "task_complete"

\* the test of line 481
IsCompletionSignal(function_name) == function_name = "task_completed"

\* lines 472-479 answering with the id of the first ToolCall of the batch
ToolSucceeded_first_id ==
    /\ pc = "called"
    /\ call_outcome = "returned"
    /\ ~IsCompletionSignal(tool_call.name)
    /\ history_dict' = AppendTo("tool_results", [tool |-> tool_call.name])
    /\ output' = Append(output, Tok("Tool Result", iteration + 1, tool_call.name))
    /\ messages' = Append(messages, Message("tool", "result", <<>>, tool_calls[1].id))
    /\ NextCall
    /\ UNCHANGED <<progress, model_supports, workers, store_vars, log_file, user_input, max_iterations,
                   iteration, response, tool_calls, result, slept>>
    /\ UNCHANGED ghosts

\* lines 472-479, the function returned and is not the completion signal
ToolSucceeded ==
    /\ pc = "called"
    /\ call_outcome = "returned"
    /\ ~IsCompletionSignal(tool_call.name)
    /\ history_dict' = AppendTo("tool_results", [tool |-> tool_call.name])
    /\ output' = Append(output, Tok("Tool Result", iteration + 1, tool_call.name))
    /\ messages' = Append(messages, Message("tool", "result", <<>>, tool_call.id))
    /\ NextCall
    /\ UNCHANGED <<progress, model_supports, workers, store_vars, log_file, user_input, max_iterations,
                   iteration, response, tool_calls, result, slept>>
    /\ UNCHANGED ghosts

\* lines 472-487, the function returned and is the completion signal
CompletionSignal ==
    /\ pc = "called"
    /\ call_outcome = "returned"
    /\ IsCompletionSignal(tool_call.name)
    /\ history_dict' = AppendTo("tool_results", [tool |-> tool_call.name])
    /\ output' = output \o <<Tok("Tool Result", iteration + 1, tool_call.name),
                              Tok("COMPLETE", iteration + 1, "")>>
    /\ messages' = Append(messages, Message("tool", "result", <<>>, tool_call.id))
    /\ progress' = [progress EXCEPT !.status = "completed", !.completed = TRUE,
                                    !.output = output']
    /\ \E w \in WriteOutcomes : log_file' = log_to_file(log_file, history_dict', w)
    /\ log_calls' = Append(log_calls, Len(history_dict))
    /\ result' = output'
    /\ passes_ended' = passes_ended + 1
    /\ pc' = "done"
    /\ UNCHANGED <<model_supports, workers, store_vars, user_input, max_iterations, iteration, response, tool_calls,
                   idx, call_outcome, slept, gateway_calls, invoked>>

\* lines 469-495 without the inner try: the exception reaches line 517
ToolFailed_propagates ==
    /\ pc = "called"
    /\ call_outcome = "raised"
    /\ history_dict' = PassBoundaryHandler
    /\ pc' = "endpass"
    /\ UNCHANGED <<progress, model_supports, workers, store_vars, log_file, user_input, max_iterations,
                   iteration, messages, output, response, tool_calls, idx, call_outcome,
                   result, slept>>
    /\ UNCHANGED ghosts

\* lines 489-495
ToolFailed ==
    /\ pc = "called"
    /\ call_outcome = "raised"
    /\ history_dict' = AppendTo("errors", [action |-> "tool_call_" \o tool_call.name])
    /\ NextCall
    /\ UNCHANGED <<progress, model_supports, workers, store_vars, log_file, user_input, max_iterations,
                   iteration, messages, output, response, tool_calls, result, slept>>
    /\ UNCHANGED ghosts

(* ---- round 2: lines 497-515 ---- *)

\* lines 497-500 made only when a ToolCall of the batch left a result
CallGateway2_only_after_result ==
    /\ pc = "round2"
    /\ IF current_iteration.tool_results # <<>>
       THEN /\ response' \in Responses({<<>>})
            /\ gateway_calls' = Append(gateway_calls, <<iteration + 1, 2>>)
            /\ pc' = "got2"
            /\ UNCHANGED progress
       ELSE /\ progress' = [progress EXCEPT !.output = output]
            /\ pc' = "endpass"
            /\ UNCHANGED <<response, gateway_calls>>
    /\ UNCHANGED <<model_supports, workers, store_vars, log_file, user_input, history_dict,
                   max_iterations, iteration, messages, output, tool_calls, idx,
                   call_outcome, result, slept, invoked, log_calls, passes_ended>>

\* lines 497-500: the follow-up call, made without tools
CallGateway2 ==
    /\ pc = "round2"
    /\ response' \in Responses({<<>>})
    /\ gateway_calls' = Append(gateway_calls, <<iteration + 1, 2>>)
    /\ pc' = "got2"
    /\ UNCHANGED <<progress, model_supports, workers, store_vars, log_file, user_input, history_dict,
                   max_iterations, iteration, messages, output, tool_calls, idx,
                   call_outcome, result, slept, invoked, log_calls, passes_ended>>

\* round 2 raising with the call of line 497 placed after the try statement
Round2Raises_escapes ==
    /\ pc = "got2"
    /\ response.kind = "raise"
    /\ pc' = "crashed"
    /\ UNCHANGED <<progress, model_supports, workers, store_vars, log_file, user_input, history_dict,
                   max_iterations, iteration, messages, output, tool_calls, idx,
                   call_outcome, result, slept, response>>
    /\ UNCHANGED ghosts

\* the call raised: lines 517-523
Round2Raises ==
    /\ pc = "got2"
    /\ response.kind = "raise"
    /\ history_dict' = PassBoundaryHandler
    /\ pc' = "endpass"
    /\ UNCHANGED <<progress, model_supports, workers, store_vars, log_file, user_input, max_iterations,
                   iteration, messages, output, tool_calls, idx, call_outcome, result,
                   slept, response>>
    /\ UNCHANGED ghosts

\* lines 501-506 and 515
Round2Message ==
    /\ pc = "got2"
    /\ response.kind = "message"
    /\ history_dict' = AppendTo("llm_responses", "content")
    /\ output' = Append(output, Tok("LLM Response", iteration + 1, ""))
    /\ messages' = Append(messages, Message("assistant", "content", <<>>, NoId))
    /\ progress' = [progress EXCEPT !.output = output']
    /\ pc' = "endpass"
    /\ UNCHANGED <<model_supports, workers, store_vars, log_file, user_input, max_iterations, iteration,
                   tool_calls, idx, call_outcome, result, slept, response>>
    /\ UNCHANGED ghosts

\* lines 507-509 treating the missing follow-up as the end of the Run
Round2NoMessage_fatal ==
    /\ pc = "got2"
    /\ response.kind = "empty"
    /\ history_dict' = AppendTo("errors", [action |-> "second_llm_completion"])
    /\ progress' = [progress EXCEPT !.status = "error", !.completed = TRUE,
                                    !.output = output]
    /\ result' = output
    /\ pc' = "done"
    /\ UNCHANGED <<model_supports, workers, store_vars, log_file, user_input, max_iterations, iteration,
                   messages, output, tool_calls, idx, call_outcome, slept, response>>
    /\ UNCHANGED ghosts

\* lines 507-509 and 515: no choices, or no message in the first choice
Round2NoMessage ==
    /\ pc = "got2"
    /\ response.kind = "empty"
    /\ history_dict' = AppendTo("errors", [action |-> "second_llm_completion"])
    /\ progress' = [progress EXCEPT !.output = output]
    /\ pc' = "endpass"
    /\ UNCHANGED <<model_supports, workers, store_vars, log_file, user_input, max_iterations, iteration,
                   messages, output, tool_calls, idx, call_outcome, result, slept,
                   response>>
    /\ UNCHANGED ghosts

(* ---- end of a pass: lines 525-527 ---- *)

\* lines 525-527 with an exception of the write escaping log_to_file
EndPass_write_raises ==
    /\ pc = "endpass"
    /\ \E w \in WriteOutcomes :
          /\ log_file' = log_to_file(log_file, history_dict, w)
          /\ pc' = IF w = "written" THEN "loop" ELSE "crashed"
          /\ iteration' = IF w = "written" THEN iteration + 1 ELSE iteration
          /\ slept' = IF w = "written" THEN Pacing ELSE slept
    /\ log_calls' = Append(log_calls, Len(history_dict))
    /\ passes_ended' = passes_ended + 1
    /\ UNCHANGED <<progress, model_supports, workers, store_vars, user_input, history_dict, max_iterations,
                   messages, output, response, tool_calls, idx, call_outcome, result,
                   gateway_calls, invoked>>

EndPass ==
    /\ pc = "endpass"
    /\ iteration' = iteration + 1
    /\ \E w \in WriteOutcomes : log_file' = log_to_file(log_file, history_dict, w)
    /\ log_calls' = Append(log_calls, Len(history_dict))
    /\ slept' = Pacing
    /\ passes_ended' = passes_ended + 1
    /\ pc' = "loop"
    /\ UNCHANGED <<progress, model_supports, workers, store_vars, user_input, history_dict, max_iterations,
                   messages, output, response, tool_calls, idx, call_outcome, result,
                   gateway_calls, invoked>>

Next ==
    \/ HomePost
    \/ PrecheckFails
    \/ ReadInstructionsFails
    \/ EnterLoop
    \/ BeginPass
    \/ FinishByBudget
    \/ CallGateway1
    \/ Round1Raises
    \/ Round1NoMessage
    \/ Round1Message
    \/ DispatchUnknownTool
    \/ CallTool
    \/ ToolSucceeded
    \/ CompletionSignal
    \/ ToolFailed
    \/ CallGateway2
    \/ Round2Raises
    \/ Round2Message
    \/ Round2NoMessage
    \/ EndPass

Spec == Init /\ [][Next]_vars

(***************************************************************************)
(* Two Runs on the one progress dict.  home starts a thread per POST       *)
(* (lines 143-148) and every thread runs run_main_loop on the same          *)
(* module-level progress (lines 39-45).  Each thread is followed through   *)
(* its reads and writes of progress, one statement per step; what a pass    *)
(* does besides (gateway, tools, history) is as in the single Run above.    *)
(***************************************************************************)

\* positions of the request handler between its four writes
Posting == {"post_iteration", "post_output", "post_completed"}

\* positions of a thread inside the while loop
Passes == {"loop", "pass", "endpass"}

At(r, where) == workers[r].pc = where

Goto(r, where) == workers' = [workers EXCEPT ![r].pc = where]

\* line 143; the handlers of two requests run one after the other on the
\* event loop, the threads they started run beside them
PostStatus(r) ==
    /\ At(r, "idle")
    /\ \A o \in Runs : workers[o].pc \notin Posting
    /\ progress' = [progress EXCEPT !.status = "running"]
    /\ Goto(r, "post_iteration")
    /\ UNCHANGED <<run_vars, store_vars>>

\* line 144
PostIteration(r) ==
    /\ At(r, "post_iteration")
    /\ progress' = [progress EXCEPT !.iteration = 0]
    /\ Goto(r, "post_output")
    /\ UNCHANGED <<run_vars, store_vars>>

\* line 145
PostOutput(r) ==
    /\ At(r, "post_output")
    /\ progress' = [progress EXCEPT !.output = <<>>]
    /\ Goto(r, "post_completed")
    /\ UNCHANGED <<run_vars, store_vars>>

\* lines 146-148: the last write, then the thread is started
PostCompleted(r) ==
    /\ At(r, "post_completed")
    /\ progress' = [progress EXCEPT !.completed = FALSE]
    /\ Goto(r, "start")
    /\ UNCHANGED <<run_vars, store_vars>>

\* lines 395-396
WorkerPrecheckStatus(r) ==
    /\ At(r, "start")
    /\ ~model_supports
    /\ progress' = [progress EXCEPT !.status = "error"]
    /\ Goto(r, "precheck_output")
    /\ UNCHANGED <<run_vars, store_vars>>

\* line 397
WorkerPrecheckOutput(r) ==
    /\ At(r, "precheck_output")
    /\ progress' = [progress EXCEPT !.output = NoToolSupport]
    /\ Goto(r, "precheck_completed")
    /\ UNCHANGED <<run_vars, store_vars>>

\* lines 398-399
WorkerPrecheckCompleted(r) ==
    /\ At(r, "precheck_completed")
    /\ progress' = [progress EXCEPT !.completed = TRUE]
    /\ workers' = [workers EXCEPT ![r].pc = "done", ![r].output = NoToolSupport]
    /\ UNCHANGED <<run_vars, store_vars>>

\* lines 401-415: the budget is read from progress, the locals are set up
WorkerEnterLoop(r) ==
    /\ At(r, "start")
    /\ model_supports
    /\ workers' = [workers EXCEPT ![r].pc = "loop",
                                  ![r].max_iterations = progress.max_iterations,
                                  ![r].iteration = 0, ![r].output = <<>>]
    /\ UNCHANGED <<progress, run_vars, store_vars>>

\* line 404: read_instructions raises and the thread dies
WorkerReadInstructionsFails(r) ==
    /\ At(r, "start")
    /\ model_supports
    /\ Goto(r, "crashed")
    /\ UNCHANGED <<progress, run_vars, store_vars>>

\* lines 417-418 with line 418 also putting the status back to running
WorkerBeginPass_sets_running(r) ==
    /\ At(r, "loop")
    /\ workers[r].iteration < workers[r].max_iterations
    /\ progress' = [progress EXCEPT !.iteration = workers[r].iteration + 1,
                                    !.status = "running", !.completed = FALSE]
    /\ Goto(r, "pass")
    /\ UNCHANGED <<run_vars, store_vars>>

\* lines 417-418
WorkerBeginPass(r) ==
    /\ At(r, "loop")
    /\ workers[r].iteration < workers[r].max_iterations
    /\ progress' = [progress EXCEPT !.iteration = workers[r].iteration + 1]
    /\ Goto(r, "pass")
    /\ UNCHANGED <<run_vars, store_vars>>

\* the text a pass of Run r adds to its output: lines 448, 453, 476, 505, 512
PassText(r) == <<Tok("Iteration", workers[r].iteration + 1, r)>>

\* lines 429-442 and 517-523: the pass ends in the empty-response branch or in
\* the handler of the pass boundary, before or after output was extended;
\* progress is not written
WorkerPassFails(r) ==
    /\ At(r, "pass")
    /\ \E extended \in BOOLEAN :
          workers' = [workers EXCEPT ![r].pc = "endpass",
                         ![r].output = IF extended THEN @ \o PassText(r) ELSE @]
    /\ UNCHANGED <<progress, run_vars, store_vars>>

\* lines 444-515: the pass runs to line 515
WorkerPassOutput(r) ==
    /\ At(r, "pass")
    /\ workers' = [workers EXCEPT ![r].pc = "endpass", ![r].output = @ \o PassText(r)]
    /\ progress' = [progress EXCEPT !.output = workers'[r].output]
    /\ UNCHANGED <<run_vars, store_vars>>

\* lines 444-482: task_completed returned
WorkerSignalStatus(r) ==
    /\ At(r, "pass")
    /\ workers' = [workers EXCEPT ![r].pc = "signal_completed",
                                  ![r].output = @ \o PassText(r)]
    /\ progress' = [progress EXCEPT !.status = "completed"]
    /\ UNCHANGED <<run_vars, store_vars>>

\* line 483
WorkerSignalCompleted(r) ==
    /\ At(r, "signal_completed")
    /\ progress' = [progress EXCEPT !.completed = TRUE]
    /\ Goto(r, "signal_output")
    /\ UNCHANGED <<run_vars, store_vars>>

\* lines 484-487
WorkerSignalOutput(r) ==
    /\ At(r, "signal_output")
    /\ workers' = [workers EXCEPT ![r].pc = "done",
                       ![r].output = Append(@, Tok("COMPLETE", workers[r].iteration + 1, r))]
    /\ progress' = [progress EXCEPT !.output = workers'[r].output]
    /\ UNCHANGED <<run_vars, store_vars>>

\* lines 441 and 525-527
WorkerEndPass(r) ==
    /\ At(r, "endpass")
    /\ workers' = [workers EXCEPT ![r].pc = "loop", ![r].iteration = @ + 1]
    /\ UNCHANGED <<progress, run_vars, store_vars>>

\* lines 417 and 529-530
WorkerLoopExit(r) ==
    /\ At(r, "loop")
    /\ ~(workers[r].iteration < workers[r].max_iterations)
    /\ progress' = [progress EXCEPT !.status = "completed"]
    /\ Goto(r, "exit_completed")
    /\ UNCHANGED <<run_vars, store_vars>>

\* line 532
WorkerExitCompleted(r) ==
    /\ At(r, "exit_completed")
    /\ progress' = [progress EXCEPT !.completed = TRUE]
    /\ Goto(r, "exit_status")
    /\ UNCHANGED <<run_vars, store_vars>>

\* lines 533-535
WorkerExitStatus(r) ==
    /\ At(r, "exit_status")
    /\ progress' = [progress EXCEPT !.status = "completed"]
    /\ Goto(r, "done")
    /\ UNCHANGED <<run_vars, store_vars>>

NextConc ==
    \E r \in Runs :
        \/ PostStatus(r)
        \/ PostIteration(r)
        \/ PostOutput(r)
        \/ PostCompleted(r)
        \/ WorkerPrecheckStatus(r)
        \/ WorkerPrecheckOutput(r)
        \/ WorkerPrecheckCompleted(r)
        \/ WorkerEnterLoop(r)
        \/ WorkerReadInstructionsFails(r)
        \/ WorkerBeginPass(r)
        \/ WorkerPassFails(r)
        \/ WorkerPassOutput(r)
        \/ WorkerSignalStatus(r)
        \/ WorkerSignalCompleted(r)
        \/ WorkerSignalOutput(r)
        \/ WorkerEndPass(r)
        \/ WorkerLoopExit(r)
        \/ WorkerExitCompleted(r)
        \/ WorkerExitStatus(r)

SpecConc == Init /\ [][NextConc]_vars

(***************************************************************************)
(* The code store: store_code and retrieve_code on the codes table         *)
(* (lines 159-195).                                                        *)
(***************************************************************************)

\* the code points a content is made of: "a" and "e" with an acute accent
Chars == {97, 233}

\* the contents of at most MaxCode characters
Contents == UNION {[1..n -> Chars] : n \in 0..MaxCode}

\* str.encode(): UTF-8, one byte below 128 and two bytes below 2048
RECURSIVE encode(_)
encode(text) ==
    IF text = <<>> THEN <<>>
    ELSE LET ch == Head(text) IN
         (IF ch < 128 THEN <<ch>> ELSE <<192 + (ch \div 64), 128 + (ch % 64)>>)
             \o encode(Tail(text))

\* a digest that reads the first byte only
sha256_first_byte(bytes) ==
    [k \in 1..(IF Len(bytes) = 0 THEN 0 ELSE 2) |->
        IF k = 1 THEN bytes[1] \div 16 ELSE bytes[1] % 16]

\* hashlib.sha256(...).hexdigest(): SHA-256 is taken as free of collisions, so
\* the digest is a hexadecimal text that tells any two byte strings apart
sha256(bytes) ==
    [k \in 1..(2 * Len(bytes)) |->
        IF k % 2 = 1 THEN bytes[(k + 1) \div 2] \div 16 ELSE bytes[k \div 2] % 16]

\* the row of the table with this primary key, if any
Rows(code_id) == {row \in codes : row[1] = code_id}

\* lines 175-184: INSERT OR REPLACE under the digest of the content
store_code ==
    /\ Len(stores) < MaxStores
    /\ \E code_content \in Contents :
          LET code_id == sha256(encode(code_content)) IN
          /\ codes' = (codes \ Rows(code_id)) \cup {<<code_id, code_content>>}
          /\ returned' = [kind |-> "Code stored with ID: ", value |-> code_id]
          /\ stores' = Append(stores, [code_content |-> code_content, code_id |-> code_id,
                                       changed |-> codes' # codes])
    /\ UNCHANGED <<progress, run_vars, workers>>

\* lines 186-195
retrieve_code ==
    /\ \E text \in Contents :
          LET code_id == sha256(encode(text)) IN
          returned' = IF Rows(code_id) # {}
                      THEN [kind |-> "code_content", value |-> (CHOOSE row \in Rows(code_id) : TRUE)[2]]
                      ELSE [kind |-> "not found.", value |-> code_id]
    /\ UNCHANGED <<progress, run_vars, workers, codes, stores>>

NextStore ==
    \/ store_code
    \/ retrieve_code

SpecStore == Init /\ [][NextStore]_vars

(***************************************************************************)
(* The claims.                                                             *)
(***************************************************************************)

Range(seq) == {seq[i] : i \in 1..Len(seq)}

\* the body of task_completed has run
SignalFired == \E i \in 1..Len(invoked) : invoked[i].name = "task_completed"

\* the worker is inside a pass of the loop
InPass == pc \in {"round1", "got1", "dispatch", "called", "round2", "got2", "endpass"}

\* C1: once the body of task_completed has run for a ToolCall of pass k, the
\* worker is either just back from that call or has returned: that call is the
\* last function invoked, the for loop has not moved past it, no round-2 call
\* of pass k and no call of a later pass has been made, the history has k
\* entries, and on return progress has status completed and completed true.
C1_SignalEndsRun ==
    \A i \in 1..Len(invoked) :
        invoked[i].name = "task_completed" =>
            LET k == invoked[i].id[1] IN
            /\ i = Len(invoked)
            /\ pc \in {"called", "done"}
            /\ idx = invoked[i].id[2]
            /\ tool_calls[idx].id = invoked[i].id
            /\ iteration + 1 = k
            /\ Len(history_dict) = k
            /\ gateway_calls[Len(gateway_calls)] = <<k, 1>>
            /\ pc = "done" => /\ progress.status = "completed"
                              /\ progress.completed
                              /\ passes_ended = k

\* the signal ended the Run while another ToolCall of the batch was pending
C1_Witness ==
    /\ SignalFired
    /\ pc = "done"
    /\ idx < Len(tool_calls)

\* C2: progress["iteration"] and the length of the history never exceed
\* progress["max_iterations"].
C2_WithinBudget ==
    /\ progress.iteration <= progress.max_iterations
    /\ Len(history_dict) <= progress.max_iterations

\* the last pass the budget allows is running
C2_Witness ==
    /\ InPass
    /\ progress.max_iterations >= 2
    /\ progress.iteration = progress.max_iterations
    /\ Len(history_dict) = progress.max_iterations

\* C3: when the worker thread has ended, run_main_loop has returned and
\* progress holds a terminal status.
C3_EndsTerminal ==
    pc \in {"done", "crashed"} =>
        /\ pc = "done"
        /\ progress.completed
        /\ progress.status \in {"completed", "error"}

\* C4: the history has one entry per pass begun, numbered 1, 2, ... in order,
\* and log_to_file has been called once at the end of each pass that ended:
\* after n passes have ended there are n entries and n calls.
C4_OneRecordPerPass ==
    /\ \A i \in 1..Len(history_dict) : history_dict[i].iteration = i
    /\ Len(history_dict) = passes_ended + (IF InPass THEN 1 ELSE 0)
    /\ log_calls = [i \in 1..passes_ended |-> i]

\* two passes have ended, the first by an empty round-1 response and the second
\* by the completion signal
C4_Witness ==
    /\ passes_ended = 2
    /\ pc = "done"
    /\ SignalFired
    /\ history_dict[1].errors = <<[action |-> "llm_completion"]>>

\* C5: a Run that has returned has completed true; its status is completed
\* when the loop was entered (signal or budget) and error when the precheck
\* failed, and status error is never seen otherwise.
C5_TerminalStatus ==
    /\ pc = "done" =>
          /\ progress.completed
          /\ progress.status = IF model_supports THEN "completed" ELSE "error"
    /\ progress.status = "error" => (pc = "done" /\ ~model_supports)

\* the budget ran out on passes that only produced errors
C5_Witness ==
    /\ pc = "done"
    /\ ~SignalFired
    /\ Len(history_dict) >= 2
    /\ \A i \in 1..Len(history_dict) :
          history_dict[i].errors # <<>> /\ history_dict[i].llm_responses = <<>>

\* the number of gateway calls made in pass n
RECURSIVE CountPass(_, _)
CountPass(calls, n) ==
    IF calls = <<>> THEN 0
    ELSE (IF Head(calls)[1] = n THEN 1 ELSE 0) + CountPass(Tail(calls), n)

\* C6: the step that handles a ToolCall whose name is not in the registry adds
\* one entry, with action tool_call_<name>, to the errors of the current
\* record and nothing else to the history or the Conversation, no function is
\* invoked, and the worker is then at the next ToolCall of the batch, or at the
\* round-2 call when the batch is finished.
C6_UnknownToolRecorded ==
    [][(pc = "dispatch" /\ tool_call.name \notin available_functions) =>
         /\ history_dict' =
              [history_dict EXCEPT ![Len(history_dict)].errors =
                   Append(@, [action |-> "tool_call_" \o tool_call.name])]
         /\ messages' = messages
         /\ invoked' = invoked
         /\ tool_calls' = tool_calls
         /\ idx' = idx + 1
         /\ pc' = IF idx < Len(tool_calls) THEN "dispatch" ELSE "round2"
      ]_vars

\* a batch whose first ToolCall named an unknown tool and whose second returned,
\* at the round-2 call
C6_Witness ==
    /\ pc = "got2"
    /\ Len(tool_calls) = 2
    /\ tool_calls[1].name \notin available_functions
    /\ current_iteration.errors = <<[action |-> "tool_call_" \o tool_calls[1].name]>>
    /\ Len(current_iteration.tool_results) = 1

\* C7: a ToolCall to a registered tool whose arguments do not parse or do not
\* bind, or whose function raises, is marked as raised without any effect on
\* history or progress, and the step that handles a raised call adds one entry,
\* with action tool_call_<name>, to the errors of the current record and leaves
\* the worker at the next ToolCall of the batch or at the round-2 call.
C7_ToolErrorRecorded ==
    [][/\ (/\ pc = "dispatch"
           /\ tool_call.name \in available_functions
           /\ \/ ~json_loads(tool_call.arguments).ok
              \/ ~Binds(tool_call.name, json_loads(tool_call.arguments).keys))
          => /\ pc' = "called"
             /\ call_outcome' = "raised"
             /\ invoked' = invoked
             /\ history_dict' = history_dict
             /\ progress' = progress
       /\ (pc = "called" /\ call_outcome = "raised")
          => /\ history_dict' =
                  [history_dict EXCEPT ![Len(history_dict)].errors =
                       Append(@, [action |-> "tool_call_" \o tool_call.name])]
             /\ progress' = progress
             /\ passes_ended' = passes_ended
             /\ tool_calls' = tool_calls
             /\ idx' = idx + 1
             /\ pc' = IF idx < Len(tool_calls) THEN "dispatch" ELSE "round2"
      ]_vars

\* a batch whose first ToolCall had unparseable arguments and whose second was
\* invoked and raised, at the round-2 call
C7_Witness ==
    /\ pc = "got2"
    /\ Len(tool_calls) = 2
    /\ tool_calls[1].name \in available_functions
    /\ ~json_loads(tool_calls[1].arguments).ok
    /\ Len(current_iteration.errors) = 2
    /\ invoked # <<>>
    /\ invoked[Len(invoked)].id = tool_calls[2].id

C9_BudgetExhaustion ==
    /\ ~SignalFired => iteration = passes_ended
    /\ (pc = "done" /\ model_supports /\ ~SignalFired) =>
          /\ passes_ended = progress.max_iterations
          /\ Len(history_dict) = progress.max_iterations
          /\ progress.status = "completed"
          /\ progress.completed
    /\ (/\ pc = "done"
        /\ progress.max_iterations = 1
        /\ Len(messages) > 3
        /\ messages[4].role = "assistant"
        /\ messages[4].tool_calls = <<>>) =>
          /\ ~SignalFired
          /\ Len(history_dict) = 1
          /\ Len(history_dict[1].llm_responses) = 1
          /\ history_dict[1].tool_results = <<>>

\* the budget of two passes ran out on an empty response and a caught exception
C9_Witness ==
    /\ pc = "done"
    /\ ~SignalFired
    /\ progress.max_iterations = 2
    /\ Len(history_dict) = 2
    /\ history_dict[1].errors = <<[action |-> "llm_completion"]>>
    /\ history_dict[2].errors = <<[action |-> "main_loop"]>>

\* C10: when the model does not support tool calling the worker is never in
\* the loop: no gateway call, no record, no log_to_file call, the history file
\* and progress["iteration"] as they were at the start, and on return status
\* error and completed true.
C10_PrecheckFailure ==
    ~model_supports =>
        /\ pc \in {"idle", "start", "done"}
        /\ gateway_calls = <<>>
        /\ history_dict = <<>>
        /\ log_calls = <<>>
        /\ log_file.state = "absent"
        /\ progress.iteration = 0
        /\ pc = "done" => /\ progress.status = "error"
                          /\ progress.completed

\* the Run has returned on the failed precheck
C10_Witness ==
    /\ ~model_supports
    /\ pc = "done"
    /\ result = NoToolSupport


\* an entry has been added to the errors of the current record
ErrorAdded ==
    /\ history_dict # <<>>
    /\ Len(history_dict') = Len(history_dict)
    /\ Len(history_dict'[Len(history_dict)].errors) > Len(current_iteration.errors)

\* C11: every step that adds an entry to the errors of the current record also
\* adds text to the cumulative output, local or exposed in progress["output"].
C11_FailuresNarrated ==
    [][ErrorAdded =>
          \/ Len(output') > Len(output)
          \/ Len(progress'.output) > Len(progress.output)
      ]_vars


\* the number of entries of seq equal to x
RECURSIVE Count(_, _)
Count(seq, x) ==
    IF seq = <<>> THEN 0
    ELSE (IF Head(seq) = x THEN 1 ELSE 0) + Count(Tail(seq), x)

\* the ids of the ToolCalls carried by the round-1 message of pass i
BatchIds(i) ==
    LET carriers == {k \in 1..Len(messages) :
                        messages[k].tool_calls # <<>> /\ messages[k].tool_calls[1][1] = i}
    IN IF carriers = {} THEN <<>> ELSE messages[CHOOSE k \in carriers : TRUE].tool_calls

\* the completion signal fired in pass i
SignalIn(i) == \E j \in 1..Len(invoked) :
                  invoked[j].name = "task_completed" /\ invoked[j].id[1] = i

\* the entries of the errors of record i that come from the dispatch of a ToolCall
ToolErrors(i) ==
    SelectSeq(history_dict[i].errors,
              LAMBDA e : e.action \notin {"llm_completion", "main_loop",
                                          "second_llm_completion"})

\* C15: in every pass the round-1 call is made at most once and the round-2
\* call at most once, round 2 after round 1; in a pass that has ended round 1
\* was made exactly once, and round 2 exactly once if the round-1 message
\* carried a ToolCall and the completion signal did not fire in the pass, and
\* not at all otherwise; and when round 2 is made every ToolCall of the batch
\* has been dispatched, each leaving a result or an error.
C15_GatewayCallsPerPass ==
    /\ \A c \in Range(gateway_calls) : c[1] \in 1..Len(history_dict) /\ c[2] \in {1, 2}
    /\ \A i \in 1..Len(history_dict) :
         LET n1 == Count(gateway_calls, <<i, 1>>)
             n2 == Count(gateway_calls, <<i, 2>>)
         IN /\ n1 <= 1
            /\ n2 <= 1
            /\ n2 = 1 =>
                 /\ n1 = 1
                 /\ BatchIds(i) # <<>>
                 /\ Len(history_dict[i].tool_results) + Len(ToolErrors(i))
                      = Len(BatchIds(i))
            /\ i <= passes_ended =>
                 /\ n1 = 1
                 /\ n2 = 1 <=> (BatchIds(i) # <<>> /\ ~SignalIn(i))
    /\ \A j, k \in 1..Len(gateway_calls) :
         (gateway_calls[j][1] = gateway_calls[k][1]
            /\ gateway_calls[j][2] < gateway_calls[k][2]) => j < k

\* round 2 has been called in a pass whose two ToolCalls both failed
C15_Witness ==
    /\ pc = "got2"
    /\ Len(tool_calls) = 2
    /\ current_iteration.tool_results = <<>>
    /\ Len(ToolErrors(Len(history_dict))) = 2
    /\ Count(gateway_calls, <<Len(history_dict), 2>>) = 1


\* the tool-role messages that answer ToolCalls of pass i, in Conversation order
ToolMessages(i) ==
    SelectSeq(messages, LAMBDA m : m.role = "tool" /\ m.tool_call_id[1] = i)

\* the ToolCalls of pass i whose function was invoked, in order of invocation
InvokedIn(i) == SelectSeq(invoked, LAMBDA c : c.id[1] = i)

\* the number of ToolCalls of pass i the for loop has finished with
Handled(i) ==
    IF i = Len(history_dict) /\ pc \in {"dispatch", "called"} THEN idx - 1
    ELSE Len(BatchIds(i))

\* C16: in a pass in which the completion signal has not fired, the ToolCalls
\* the for loop has finished with have left exactly one entry each: the
\* tool_results and the tool-call errors of the record add up to their number
\* (to n once the batch of n is finished); there is one tool-role message per
\* tool_results entry, for a ToolCall of the batch that was invoked and with
\* the name in that entry, all after the assistant message that carries the
\* batch and in the order of the batch; and the functions are invoked in batch
\* order, none twice.
C16_OneEntryPerToolCall ==
    \A i \in 1..Len(history_dict) :
        ~SignalIn(i) =>
            LET ids == BatchIds(i)
                msgs == ToolMessages(i)
                inv == InvokedIn(i)
                results == history_dict[i].tool_results
            IN /\ Len(results) + Len(ToolErrors(i)) = Handled(i)
               /\ Len(msgs) = Len(results)
               /\ \A j \in 1..Len(msgs) :
                    /\ msgs[j].tool_call_id \in Range(ids)
                    /\ \E c \in Range(inv) :
                          c.id = msgs[j].tool_call_id /\ c.name = results[j].tool
               /\ \A j, k \in 1..Len(msgs) :
                    j < k => msgs[j].tool_call_id[2] < msgs[k].tool_call_id[2]
               /\ \A j, k \in 1..Len(inv) : j < k => inv[j].id[2] < inv[k].id[2]
               /\ \A p, q \in 1..Len(messages) :
                    (messages[p].role = "tool" /\ messages[p].tool_call_id[1] = i
                       /\ messages[q].tool_calls = ids) => q < p

\* a batch of two ToolCalls has been dispatched and both returned
C16_Witness ==
    /\ pc = "round2"
    /\ Len(tool_calls) = 2
    /\ Len(current_iteration.tool_results) = 2
    /\ Len(ToolMessages(Len(history_dict))) = 2


\* the pass of the last completion() call
LastCallPass == gateway_calls[Len(gateway_calls)][1]

\* C17: once a completion() call that raised has been handled, the record of
\* its pass ends with one error of action main_loop, the only one of that
\* action in the record, and the worker is at the end of that pass or beyond,
\* never out of run_main_loop by the exception; a record never holds two
\* main_loop errors; and a pass that recorded one and has ended has called
\* log_to_file and has advanced iteration past it.
C17_PassBoundary ==
    /\ (response.kind = "raise" /\ pc \notin {"got1", "got2"}) =>
          LET errs == history_dict[LastCallPass].errors
          IN /\ errs # <<>>
             /\ errs[Len(errs)] = [action |-> "main_loop"]
             /\ pc \in {"endpass", "loop", "round1", "done"}
             /\ pc = "endpass" => LastCallPass = Len(history_dict)
    /\ \A i \in 1..Len(history_dict) :
          LET errs == history_dict[i].errors
          IN [action |-> "main_loop"] \in Range(errs) =>
                /\ Count(errs, [action |-> "main_loop"]) = 1
                /\ errs[Len(errs)] = [action |-> "main_loop"]
                /\ i = Len(history_dict) => pc \in {"endpass", "loop", "done"}
                /\ i <= passes_ended => (log_calls[i] = i /\ iteration >= i)

\* the second pass has begun after a first pass whose round-2 call raised
C17_Witness ==
    /\ Len(history_dict) = 2
    /\ pc = "round1"
    /\ history_dict[1].errors = <<[action |-> "main_loop"]>>
    /\ history_dict[1].tool_results # <<>>
    /\ log_calls = <<1>>


\* C18: the step that handles a round-2 call that raised or returned no message
\* adds one entry to the errors of the current record (main_loop when it
\* raised, second_llm_completion when no message came) and changes nothing else
\* in the history, appends nothing to the Conversation, and leaves the worker
\* at the end of the pass; and the end of a pass is the same step whatever the
\* pass was: log_to_file called with the history as it is, iteration advanced
\* by one, sleep of the short delay, and back to the while test.
C18_FollowUpFailure ==
    [][/\ (pc = "got2" /\ response.kind \in {"raise", "empty"}) =>
             /\ history_dict' =
                  [history_dict EXCEPT ![Len(history_dict)].errors =
                       Append(@, [action |-> IF response.kind = "raise"
                                             THEN "main_loop"
                                             ELSE "second_llm_completion"])]
             /\ messages' = messages
             /\ iteration' = iteration
             /\ pc' = "endpass"
       /\ pc = "endpass" =>
             /\ history_dict' = history_dict
             /\ messages' = messages
             /\ log_calls' = Append(log_calls, Len(history_dict))
             /\ iteration' = iteration + 1
             /\ slept' = Pacing
             /\ pc' = "loop"
      ]_vars

\* a pass whose ToolCall returned and whose round-2 call returned no message
\* has ended: the result and the tool message are still there
C18_Witness ==
    /\ pc = "loop"
    /\ Len(history_dict) = 1
    /\ history_dict[1].errors = <<[action |-> "second_llm_completion"]>>
    /\ Len(history_dict[1].tool_results) = 1
    /\ Len(history_dict[1].llm_responses) = 1
    /\ Len(ToolMessages(1)) = 1
    /\ messages[Len(messages)].role = "tool"
    /\ iteration = 1
    /\ log_calls = <<1>>


\* the ToolCall ids carried by the assistant messages of the Conversation
CarriedIds == UNION {Range(messages[k].tool_calls) : k \in 1..Len(messages)}

\* the number of tool-role messages that answer the ToolCall id
Answers(id) ==
    Cardinality({k \in 1..Len(messages) :
                    messages[k].role = "tool" /\ messages[k].tool_call_id = id})

\* C19: when completion() is called, every ToolCall id carried by an assistant
\* message of the Conversation is answered by exactly one tool-role message.
C19_EveryCallAnswered ==
    pc \in {"round1", "round2"} => \A id \in CarriedIds : Answers(id) = 1

\* C20: when run_main_loop has returned from the loop, by the completion
\* signal or at the end of the budget, progress["output"] is the output it
\* returned.
C20_OutputExposed ==
    (pc = "done" /\ model_supports) => progress.output = result


\* the step calls log_to_file
WritesHistory == Len(log_calls') = Len(log_calls) + 1

\* C13: a failing history write never affects the Run (step form of the
\* two-run statement). A step that calls log_to_file changes the Run, that is
\* every variable other than the history file, to values fixed by the state
\* before the step alone, whatever the write does: at the end of a pass the
\* Conversation, history, progress and output stay and control is back at the
\* loop test with iteration advanced; after an empty response likewise with
\* the llm_completion error recorded; on the completion signal the Run returns
\* with progress completed. Only the history file shows the outcome of the
\* write (rewritten, truncated or left as it was), and no other step touches
\* the file. Two Runs fed the same responses and tool outcomes therefore stay
\* in the same state step by step, whichever of their writes fail.
C13_WriteNeverAffectsRun ==
    [][/\ ~WritesHistory => log_file' = log_file
       /\ WritesHistory =>
            /\ log_file' \in {log_to_file(log_file, history_dict', w) : w \in WriteOutcomes}
            /\ model_supports' = model_supports /\ max_iterations' = max_iterations
            /\ gateway_calls' = gateway_calls /\ invoked' = invoked
            /\ passes_ended' = passes_ended + 1
            /\ CASE pc = "endpass" ->
                      /\ history_dict' = history_dict /\ messages' = messages
                      /\ progress' = progress /\ output' = output /\ result' = result
                      /\ iteration' = iteration + 1 /\ slept' = Pacing /\ pc' = "loop"
                 [] pc = "got1" ->
                      /\ history_dict' = AppendTo("errors", [action |-> "llm_completion"])
                      /\ messages' = messages /\ progress' = progress
                      /\ output' = output /\ result' = result
                      /\ iteration' = iteration + 1 /\ slept' = AnomalyBackoff /\ pc' = "loop"
                 [] pc = "called" ->
                      /\ history_dict' = AppendTo("tool_results", [tool |-> "task_completed"])
                      /\ Len(messages') = Len(messages) + 1
                      /\ progress' = [progress EXCEPT !.status = "completed",
                                          !.completed = TRUE, !.output = output']
                      /\ result' = output' /\ iteration' = iteration /\ pc' = "done"
                 [] OTHER -> FALSE
      ]_vars

\* both writes of a two-pass Run failed, the second in json.dump, and the Run
\* ended at its budget as completed
C13_Witness ==
    /\ pc = "done" /\ log_calls = <<1, 2>> /\ log_file.state = "partial"
    /\ progress.status = "completed" /\ progress.completed
    /\ Len(history_dict) = 2 /\ iteration = 2


\* the thread of Run r has returned by the completion signal
EndedBySignal(r) ==
    /\ workers[r].pc = "done"
    /\ Len(workers[r].output) > 0
    /\ workers[r].output[Len(workers[r].output)][1] = "COMPLETE"

\* C12: two Runs on the one progress record corrupt each other's reported
\* status. A Run that is executing passes writes only iteration and output of
\* progress and never status or completed: each of its steps inside the loop
\* leaves status and completed as it found them, sets iteration to its own
\* pass number when it starts a pass and output to its own output when the
\* pass reaches line 515. So once the other Run's termination has written
\* status = completed and completed = true, progress keeps showing them while
\* this Run goes on overwriting iteration and output.
C12_RunsCorruptStatus ==
    [][\A r \in Runs :
          (workers[r].pc \in Passes /\ workers'[r] # workers[r] /\ workers'[r].pc \in Passes) =>
              /\ progress'.status = progress.status
              /\ progress'.completed = progress.completed
              /\ progress'.max_iterations = progress.max_iterations
              /\ (workers'[r].pc = "pass") => progress'.iteration = workers[r].iteration + 1
              /\ progress'.output \in {progress.output, workers'[r].output}
      ]_vars

\* the first Run has returned by the completion signal, whose last write put
\* its own output into progress; the second Run, still in its second pass,
\* has since overwritten iteration and output, and progress still reports
\* status completed and completed true
C12_Witness ==
    /\ EndedBySignal("first")
    /\ workers["second"].pc = "endpass" /\ workers["second"].iteration = 1
    /\ progress.status = "completed" /\ progress.completed
    /\ progress.iteration = 2
    /\ progress.output = workers["second"].output /\ Len(progress.output) = 2


\* C14: after any sequence of store_code and retrieve_code calls, two
\* store_code calls of the same content returned the same id and the later one
\* left the table as it was, two calls of different contents returned
\* different ids, and the table still holds under the id of every call the
\* content that call stored, in one row.
C14_CodeStore ==
    /\ \A i, j \in 1..Len(stores) :
          /\ stores[i].code_content = stores[j].code_content =>
                /\ stores[i].code_id = stores[j].code_id
                /\ i < j => ~stores[j].changed
          /\ stores[i].code_content # stores[j].code_content =>
                stores[i].code_id # stores[j].code_id
    /\ \A i \in 1..Len(stores) :
          Rows(stores[i].code_id) = {<<stores[i].code_id, stores[i].code_content>>}

\* one content stored, another stored, the first stored again, then the first
\* read back by its id
C14_Witness ==
    /\ Len(stores) = 3
    /\ stores[1].code_content = stores[3].code_content
    /\ stores[2].code_content # stores[1].code_content
    /\ Len(stores[2].code_content) = Len(stores[1].code_content)
    /\ Cardinality(codes) = 2
    /\ returned = [kind |-> "code_content", value |-> stores[1].code_content]


\* the ToolCall being dispatched names task_completed and its arguments do not
\* decode, or decode to keys task_completed() does not take
SignalCallFails ==
    /\ tool_call.name = "task_completed"
    /\ \/ ~json_loads(tool_call.arguments).ok
       \/ json_loads(tool_call.arguments).keys # {}

\* record k holds an error of a failed task_completed call
SignalErrorIn(k) ==
    \E e \in 1..Len(history_dict[k].errors) :
        history_dict[k].errors[e] = [action |-> "tool_call_task_completed"]

\* C21: a ToolCall naming task_completed whose arguments fail to parse or are
\* rejected by the function does not end the Run. Trying the call leaves
\* progress as it is and invokes no function; handling the failure adds one
\* error entry with action tool_call_task_completed to the current record,
\* adds nothing to the Conversation, leaves progress as it is and moves the
\* for loop to the next ToolCall of the batch, or to the round-2 call after the
\* last one. A pass that recorded such an error and has been left without a
\* later ToolCall of its batch firing the signal has made its round-2 call,
\* and a Run that has returned after recording one without the signal ever
\* firing has used all of its budget.
C21_FailedSignalCall ==
    /\ [][/\ (pc = "dispatch" /\ SignalCallFails) =>
                /\ progress' = progress /\ invoked' = invoked
                /\ history_dict' = history_dict
                /\ pc' = "called" /\ call_outcome' = "raised" /\ idx' = idx
          /\ (pc = "called" /\ SignalCallFails) =>
                /\ history_dict' = AppendTo("errors", [action |-> "tool_call_task_completed"])
                /\ progress' = progress /\ invoked' = invoked /\ messages' = messages
                /\ idx' = idx + 1
                /\ pc' = IF idx < Len(tool_calls) THEN "dispatch" ELSE "round2"
         ]_vars
    /\ [](\A k \in 1..Len(history_dict) :
             (SignalErrorIn(k) /\ ~SignalIn(k)) =>
                 /\ (k < Len(history_dict) \/ pc \in {"got2", "endpass", "loop", "done"}) =>
                        <<k, 2>> \in Range(gateway_calls)
                 /\ (pc = "done" /\ ~SignalFired) => iteration = max_iterations)

\* the first ToolCall of pass 1 named task_completed with arguments the call
\* fails on: the error is recorded, the second ToolCall of the batch was
\* dispatched and answered, round 2 was called, and the Run, still running, is
\* in its second pass
C21_Witness ==
    /\ pc = "round1" /\ Len(history_dict) = 2
    /\ history_dict[1].errors = <<[action |-> "tool_call_task_completed"]>>
    /\ history_dict[1].tool_results = <<[tool |-> "create_directory"]>>
    /\ Len(ToolMessages(1)) = 1 /\ ToolMessages(1)[1].tool_call_id = <<1, 2>>
    /\ <<1, 2>> \in Range(gateway_calls)
    /\ ~SignalFired
    /\ progress.status = "running" /\ ~progress.completed /\ progress.iteration = 2

====
